---- MODULE Spec2Model ----
(***************************************************************************)
(* A model of the utility scripts of TMLEC_QRScan (model download,         *)
(* conversion, training-data loading and weight export).                   *)
(*                                                                         *)
(* Every script is a single-threaded, run-to-completion program.  One      *)
(* behaviour of the model is one run of one script: `script` names it,     *)
(* `pc` is the position in its code, `ret` the way its function of         *)
(* interest ended and `exit_code` the process exit status.  The two        *)
(* download scripts may be run again, one after the other, on the assets   *)
(* directory the earlier run left.                                         *)
(*                                                                         *)
(* Real numbers are fixed-point integers in hundredths (10.0 is 1000,      *)
(* 0.4 is 40).  Results of calls into third-party libraries (numpy,        *)
(* pandas, requests, TensorFlow, the file system) are inputs drawn from    *)
(* small sets.                                                             *)
(***************************************************************************)
EXTENDS Integers, Sequences, FiniteSets, TLC

VARIABLES
    script,         \* the script that is run
    pc,             \* position in the script
    ret,            \* "running", or how the function ended: "True", "False",
                    \* "None", "DataFrame", "ValueError", "raised" (an
                    \* exception escaped)
    exit_code,      \* process exit status, -1 while the process runs
    log,            \* console output, a sequence of [msg, arg]
    \* create_sample_model.py
    X, y, i,
    \* export_model_weights.py
    model, thresholds, weights, output, out_file0, out_file,
    \* run_model_export.py
    ran,
    \* convert_and_test_model.py
    fs, steps,
    \* load_qr_respiratory_data / load_respiratory_data
    files, header_index, all_data, processed,
    \* download_coco_model.py, download_coco_model_updated.py
    assets, attempts, runs,
    \* load_bidmc_data
    subject_id, all_subjects, attempted,
    \* convert_onnx_simple.py
    cos_fs0, cos_fs, conversions, cos_raised,
    \* convert_yolov5_improved.py
    cyi_fs0, cyi_fs, graph_output, out_i,
    \* prepare_features_for_model
    stored_names, frame, columns, feature_i

common == <<script, pc, ret, exit_code, log>>
csmVars == <<X, y, i>>
emwVars == <<model, thresholds, weights, output, out_file0, out_file>>
rmeVars == <<ran>>
catmVars == <<fs, steps>>
loadVars == <<files, header_index, all_data, processed>>
dlVars == <<assets, attempts, runs>>
bidmcVars == <<subject_id, all_subjects, attempted>>
cosVars == <<cos_fs0, cos_fs, conversions, cos_raised>>
cyiVars == <<cyi_fs0, cyi_fs, graph_output, out_i>>
pfVars == <<stored_names, frame, columns, feature_i>>
vars == <<common, csmVars, emwVars, rmeVars, catmVars, loadVars, dlVars,
          bidmcVars, cosVars, cyiVars, pfVars>>

Scripts == {"create_sample_model", "export_model_weights", "run_model_export",
            "convert_and_test_model", "load_qr_respiratory_data",
            "load_respiratory_data", "download_coco_model", "load_bidmc_data",
            "convert_onnx_simple", "convert_yolov5_improved",
            "download_coco_model_updated", "prepare_features_for_model"}

Min(a, b) == IF a < b THEN a ELSE b

Msg(m, a) == [msg |-> m, arg |-> a]

Logged(m) == \E k \in 1..Len(log) : log[k].msg = m

\* The function ended by returning r / by an exception leaving it.
Finish(r) == /\ pc' = "done"
             /\ ret' = r
             /\ UNCHANGED <<script, exit_code>>

(***************************************************************************)
(* create_sample_model.py                                                  *)
(***************************************************************************)

\* Bounds: the script generates 100 samples; the model generates MaxSamples,
\* each drawn from values on and next to the thresholds.
MaxSamples == 2

BRADYPNEA == 1000
TACHYPNEA == 2400
IRREGULARITY == 40
AMPLITUDE_VARIATION == 4000
VELOCITY == 800

SampleValues ==
    [breathing_rate : {BRADYPNEA - 1, BRADYPNEA, TACHYPNEA, TACHYPNEA + 1},
     irregularity : {IRREGULARITY, IRREGULARITY + 1},
     amplitude_var : {AMPLITUDE_VARIATION, AMPLITUDE_VARIATION + 1},
     velocity : {VELOCITY, VELOCITY + 1}]

B2N(b) == IF b THEN 1 ELSE 0

\* A plausible slip: the comparisons include the threshold itself.
abnormal_factors_inclusive(s) ==
      B2N(s.breathing_rate <= BRADYPNEA)
    + B2N(s.breathing_rate >= TACHYPNEA)
    + B2N(s.irregularity >= IRREGULARITY)
    + B2N(s.amplitude_var >= AMPLITUDE_VARIATION)
    + B2N(s.velocity >= VELOCITY)

\* The five counters of the labelling loop.
abnormal_factors(s) ==
      B2N(s.breathing_rate < BRADYPNEA)
    + B2N(s.breathing_rate > TACHYPNEA)
    + B2N(s.irregularity > IRREGULARITY)
    + B2N(s.amplitude_var > AMPLITUDE_VARIATION)
    + B2N(s.velocity > VELOCITY)

sample_label(s) == IF abnormal_factors(s) >= 2 THEN 1 ELSE 0

csm_Init == /\ X = <<>>
            /\ y = <<>>
            /\ i = 0

\* One iteration of `for i in range(100)`: X[i] is the i-th generated sample.
csm_Label ==
    /\ script = "create_sample_model"
    /\ pc = "start"
    /\ i < MaxSamples
    /\ \E s \in SampleValues :
          /\ X' = Append(X, s)
          /\ y' = Append(y, sample_label(s))
    /\ i' = i + 1
    /\ UNCHANGED <<common, emwVars, rmeVars, catmVars, loadVars, dlVars,
                   bidmcVars, cosVars, cyiVars, pfVars>>

\* Lines 69-86.  LogisticRegression.fit needs both classes in y; then
\* os.makedirs of the directory of output_path and joblib.dump, neither in a
\* try: when one of them raises nothing is reported as saved.
csm_FitAndSave ==
    /\ script = "create_sample_model"
    /\ pc = "start"
    /\ i = MaxSamples
    /\ \E save \in {"ok", "makedirs_raises", "dump_raises"} :
          IF (\E k \in 1..Len(y) : y[k] # y[1]) /\ save = "ok"
            THEN /\ log' = Append(log, Msg("Model saved", 0))
                 /\ Finish("True")
            ELSE /\ log' = log
                 /\ Finish("raised")
    /\ UNCHANGED <<csmVars, emwVars, rmeVars, catmVars, loadVars, dlVars,
                   bidmcVars, cosVars, cyiVars, pfVars>>

(***************************************************************************)
(* export_model_weights.py                                                 *)
(***************************************************************************)

\* Bound: the largest number of coefficients of a loaded model.
MaxCoef == 5

feature_names == <<"breathing_rate", "irregularity_index",
                   "amplitude_variation", "avg_velocity">>

\* What joblib.load finds at model_path: nothing loadable, an object of
\* another class, an unfitted LogisticRegression (no coef_), or a fitted one
\* with coef_ of shape (rows, ncoef).
ModelInputs ==
    [kind : {"missing", "other", "unfitted"}, rows : {0}, ncoef : {0}]
    \cup [kind : {"lr"}, rows : {1, 3}, ncoef : 2..MaxCoef]

NoModel == [kind |-> "missing", rows |-> 0, ncoef |-> 0]

\* model.coef_[r][j] and model.intercept_[r] (r 0-based, j 1-based).
coef_(m, r) == [j \in 1..m.ncoef |-> 100 * (r + 1) + j]
intercept_(m, r) == 100 * (r + 1)

\* dict(zip(names, values)): pairs up to the shorter of the two.
dict_zip(names, values) ==
    [n \in {names[j] : j \in 1..Min(Len(names), Len(values))} |->
        values[CHOOSE j \in 1..Min(Len(names), Len(values)) : names[j] = n]]

DefaultThresholds ==
    [t \in {"BRADYPNEA_THRESHOLD", "TACHYPNEA_THRESHOLD",
            "IRREGULARITY_THRESHOLD", "AMPLITUDE_VARIATION_THRESHOLD",
            "VELOCITY_THRESHOLD"} |->
        CASE t = "BRADYPNEA_THRESHOLD" -> 1000
          [] t = "TACHYPNEA_THRESHOLD" -> 2400
          [] t = "IRREGULARITY_THRESHOLD" -> 40
          [] t = "AMPLITUDE_VARIATION_THRESHOLD" -> 4000
          [] t = "VELOCITY_THRESHOLD" -> 800]

CustomThresholds == [t \in {"BRADYPNEA_THRESHOLD"} |-> 1200]

NoDict == [n \in {} |-> 0]

NoOutput == [model_type |-> "", weights |-> NoDict, thresholds |-> NoDict,
             feature_names |-> <<>>]

\* thresholds is the argument ("None" or "custom") until line 49 replaces it.
emw_Init ==
    /\ model \in (IF script = "export_model_weights" THEN ModelInputs
                                                      ELSE {NoModel})
    /\ thresholds \in (IF script = "export_model_weights"
                         THEN {"None", "custom"} ELSE {"None"})
    /\ out_file0 \in (IF script = "export_model_weights"
                        THEN {"absent", "old"} ELSE {"absent"})
    /\ out_file = out_file0
    /\ weights = NoDict
    /\ output = NoOutput

\* The `except Exception` handler of the function.
emw_Except == /\ log' = Append(log, Msg("Error exporting model weights", 0))
              /\ Finish("False")

\* joblib.load and the isinstance check.
emw_Load ==
    /\ script = "export_model_weights"
    /\ pc = "start"
    /\ CASE model.kind = "missing" -> emw_Except
         [] model.kind = "other" ->
              /\ log' = Append(log, Msg("Error: Expected LogisticRegression", 0))
              /\ Finish("False")
         [] OTHER ->
              /\ pc' = "emw_extract"
              /\ UNCHANGED <<script, ret, exit_code, log>>
    /\ UNCHANGED <<emwVars, csmVars, rmeVars, catmVars, loadVars, dlVars,
                   bidmcVars, cosVars, cyiVars, pfVars>>

\* Lines 28-64: the parameters, the weight dictionary and the bundle.
emw_Build ==
    /\ script = "export_model_weights"
    /\ pc = "emw_extract"
    /\ IF model.kind = "unfitted"
         THEN \* model.coef_ raises AttributeError
              /\ emw_Except
              /\ UNCHANGED emwVars
         ELSE LET r == IF model.rows = 1 THEN 0 ELSE 1
                  feature_weights == coef_(model, r)
                  w == dict_zip(feature_names, feature_weights)
                         @@ ("bias" :> intercept_(model, r))
                  th == IF thresholds = "None" THEN DefaultThresholds
                                               ELSE CustomThresholds
              IN /\ weights' = w
                 /\ output' = [model_type |-> "logistic_regression",
                               weights |-> w,
                               thresholds |-> th,
                               feature_names |-> feature_names]
                 /\ log' = IF Len(feature_weights) # Len(feature_names)
                             THEN Append(log, Msg("Warning: Number of weights", 0))
                             ELSE log
                 /\ pc' = "emw_open"
                 /\ UNCHANGED <<script, ret, exit_code, model, thresholds,
                                out_file0, out_file>>
    /\ UNCHANGED <<csmVars, rmeVars, catmVars, loadVars, dlVars, bidmcVars,
                   cosVars, cyiVars, pfVars>>

\* open(output_path, 'w'): truncates the file, or fails and leaves it alone.
emw_Open ==
    /\ script = "export_model_weights"
    /\ pc = "emw_open"
    /\ \E ok \in BOOLEAN :
          IF ok THEN /\ out_file' = "empty"
                     /\ pc' = "emw_dump"
                     /\ UNCHANGED <<script, ret, exit_code, log>>
                ELSE /\ emw_Except
                     /\ UNCHANGED out_file
    /\ UNCHANGED <<model, thresholds, weights, output, out_file0>>
    /\ UNCHANGED <<csmVars, rmeVars, catmVars, loadVars, dlVars, bidmcVars,
                   cosVars, cyiVars, pfVars>>

\* A slip: a failed dump is reported as success.
emw_Dump_Swallow ==
    /\ script = "export_model_weights"
    /\ pc = "emw_dump"
    /\ \E ok \in BOOLEAN :
          /\ out_file' = IF ok THEN "complete" ELSE "partial"
          /\ log' = Append(log, Msg("Successfully exported", 0))
          /\ Finish("True")
    /\ UNCHANGED <<model, thresholds, weights, output, out_file0>>
    /\ UNCHANGED <<csmVars, rmeVars, catmVars, loadVars, dlVars, bidmcVars,
                   cosVars, cyiVars, pfVars>>

\* json.dump inside the with block, the close, and the return.
emw_Dump ==
    /\ script = "export_model_weights"
    /\ pc = "emw_dump"
    /\ \E ok \in BOOLEAN :
          IF ok THEN /\ out_file' = "complete"
                     /\ log' = Append(log, Msg("Successfully exported", 0))
                     /\ Finish("True")
                ELSE /\ out_file' = "partial"
                     /\ emw_Except
    /\ UNCHANGED <<model, thresholds, weights, output, out_file0>>
    /\ UNCHANGED <<csmVars, rmeVars, catmVars, loadVars, dlVars, bidmcVars,
                   cosVars, cyiVars, pfVars>>

(***************************************************************************)
(* run_model_export.py                                                     *)
(***************************************************************************)

\* Bound: exit statuses of a sub-script are 0..MaxRc.
MaxRc == 2

\* run_script: subprocess.run(check=True) raises CalledProcessError on a
\* non-zero status, which is caught and gives False.
run_script_unchecked(rc) == TRUE

run_script(rc) == IF rc # 0 THEN FALSE ELSE rc = 0

rme_Init == ran = <<>>

rme_Step1 ==
    /\ script = "run_model_export"
    /\ pc = "start"
    /\ \E rc \in 0..MaxRc :
          /\ ran' = Append(ran, [name |-> "create_sample_model.py", rc |-> rc])
          /\ IF ~run_script(rc)
               THEN /\ log' = Append(log, Msg("Failed to create sample model", rc))
                    /\ ret' = "False"
                    /\ pc' = "rme_exit"
               ELSE /\ pc' = "rme_step2"
                    /\ UNCHANGED <<ret, log>>
    /\ UNCHANGED <<script, exit_code>>
    /\ UNCHANGED <<csmVars, emwVars, catmVars, loadVars, dlVars, bidmcVars,
                   cosVars, cyiVars, pfVars>>

rme_Step2 ==
    /\ script = "run_model_export"
    /\ pc = "rme_step2"
    /\ \E rc \in 0..MaxRc :
          /\ ran' = Append(ran, [name |-> "export_model_weights.py", rc |-> rc])
          /\ IF ~run_script(rc)
               THEN /\ log' = Append(log, Msg("Failed to export model weights", rc))
                    /\ ret' = "False"
               ELSE /\ log' = Append(log, Msg("completed successfully", 0))
                    /\ ret' = "True"
    /\ pc' = "rme_exit"
    /\ UNCHANGED <<script, exit_code>>
    /\ UNCHANGED <<csmVars, emwVars, catmVars, loadVars, dlVars, bidmcVars,
                   cosVars, cyiVars, pfVars>>

\* sys.exit(0 if success else 1)
rme_Exit ==
    /\ script = "run_model_export"
    /\ pc = "rme_exit"
    /\ exit_code' = IF ret = "True" THEN 0 ELSE 1
    /\ pc' = "done"
    /\ UNCHANGED <<script, ret, log>>
    /\ UNCHANGED <<csmVars, emwVars, rmeVars, catmVars, loadVars, dlVars,
                   bidmcVars, cosVars, cyiVars, pfVars>>

(***************************************************************************)
(* convert_and_test_model.py                                               *)
(***************************************************************************)

\* fs: which files of model_output/ exist.
catm_Init ==
    /\ fs \in (IF script = "convert_and_test_model"
                 THEN [model : BOOLEAN, tflite : BOOLEAN, features : BOOLEAN]
                 ELSE {[model |-> FALSE, tflite |-> FALSE, features |-> FALSE]})
    /\ steps = <<>>

\* An exception leaves main: the traceback is printed and the process exits 1.
catm_Raise(step) ==
    /\ log' = Append(log, Msg("Traceback", 0))
    /\ pc' = "done"
    /\ ret' = "raised"
    /\ exit_code' = 1
    /\ UNCHANGED <<script, fs, steps>>

\* ensure_tensorflow: import, or pip install (check_call) and import again.
catm_EnsureTensorflow ==
    /\ script = "convert_and_test_model"
    /\ pc = "start"
    /\ \E installed \in BOOLEAN, pip_ok \in BOOLEAN :
          IF installed \/ pip_ok
            THEN /\ steps' = Append(steps, "ensure_tensorflow")
                 /\ pc' = "catm_classification"
                 /\ UNCHANGED <<script, ret, exit_code, log, fs>>
            ELSE catm_Raise("ensure_tensorflow")
    /\ UNCHANGED <<csmVars, emwVars, rmeVars, loadVars, dlVars, bidmcVars,
                   cosVars, cyiVars, pfVars>>

\* run_classification: subprocess.run(check=True) outside any try.  The
\* sub-script leaves the model and pattern_features.json when it exits 0;
\* when it fails it may have written none of them, the model only, or both
\* (it saves them before it loads the respiratory data).
catm_RunClassification ==
    /\ script = "convert_and_test_model"
    /\ pc = "catm_classification"
    /\ IF ~fs.model
         THEN \E rc \in 0..MaxRc :
                IF rc # 0
                  THEN \E wrote \in {"none", "model", "all"} :
                         /\ fs' = [fs EXCEPT
                                     !.model = wrote # "none",
                                     !.features = @ \/ wrote = "all"]
                         /\ log' = Append(log, Msg("Traceback", 0))
                         /\ pc' = "done"
                         /\ ret' = "raised"
                         /\ exit_code' = 1
                         /\ UNCHANGED <<script, steps>>
                  ELSE /\ fs' = [fs EXCEPT !.model = TRUE, !.features = TRUE]
                       /\ steps' = Append(steps, "run_classification")
                       /\ log' = Append(log, Msg("Classification model trained", 0))
                       /\ pc' = "catm_convert"
                       /\ UNCHANGED <<script, ret, exit_code>>
         ELSE /\ steps' = Append(steps, "run_classification")
              /\ log' = Append(log, Msg("Skipping training", 0))
              /\ pc' = "catm_convert"
              /\ UNCHANGED <<script, ret, exit_code, fs>>
    /\ UNCHANGED <<csmVars, emwVars, rmeVars, loadVars, dlVars, bidmcVars,
                   cosVars, cyiVars, pfVars>>

\* convert_model: the same shape, for respiratory_abnormality.tflite.
catm_ConvertModel ==
    /\ script = "convert_and_test_model"
    /\ pc = "catm_convert"
    /\ IF ~fs.tflite
         THEN \E rc \in 0..MaxRc :
                IF rc # 0
                  THEN catm_Raise("convert_model")
                  ELSE /\ \E made \in BOOLEAN : fs' = [fs EXCEPT !.tflite = made]
                       /\ steps' = Append(steps, "convert_model")
                       /\ log' = Append(log, Msg("Model converted", 0))
                       /\ pc' = "catm_test"
                       /\ UNCHANGED <<script, ret, exit_code>>
         ELSE /\ steps' = Append(steps, "convert_model")
              /\ log' = Append(log, Msg("Skipping conversion", 0))
              /\ pc' = "catm_test"
              /\ UNCHANGED <<script, ret, exit_code, fs>>
    /\ UNCHANGED <<csmVars, emwVars, rmeVars, loadVars, dlVars, bidmcVars,
                   cosVars, cyiVars, pfVars>>

\* test_model: its whole body is inside try/except Exception.  Loading the
\* model and the scaler and opening pattern_features.json (lines 60-64) can
\* fail before 'Model loaded successfully' is printed (line 66); what comes
\* after it can fail too, and then both messages are printed.
catm_TestModel ==
    /\ script = "convert_and_test_model"
    /\ pc = "catm_test"
    /\ \E fail \in {"none", "load", "later"} :
          log' = IF fail = "load" \/ ~fs.features
                   THEN Append(log, Msg("Error during model testing", 0))
                 ELSE IF fail = "later"
                   THEN log \o <<Msg("Model loaded successfully", 0),
                                 Msg("Error during model testing", 0)>>
                 ELSE Append(log, Msg("Model loaded successfully", 0))
    /\ steps' = Append(steps, "test_model")
    /\ pc' = "catm_instructions"
    /\ UNCHANGED <<script, ret, exit_code, fs>>
    /\ UNCHANGED <<csmVars, emwVars, rmeVars, loadVars, dlVars, bidmcVars,
                   cosVars, cyiVars, pfVars>>

\* copy_instructions opens pattern_features.json, loads it with json.load
\* and walks it with enumerate, all outside any try: a missing file, a file
\* that is not JSON or one that holds no list raises out of main.  Otherwise
\* main prints its last messages.
catm_CopyInstructions ==
    /\ script = "convert_and_test_model"
    /\ pc = "catm_instructions"
    /\ \E content \in {"list", "not_json", "not_iterable"} :
          IF ~fs.features \/ content # "list"
            THEN catm_Raise("copy_instructions")
            ELSE /\ steps' = Append(steps, "copy_instructions")
                 /\ log' = Append(log, Msg("Process completed successfully!", 0))
                 /\ pc' = "done"
                 /\ ret' = "None"
                 /\ exit_code' = 0
                 /\ UNCHANGED <<script, fs>>
    /\ UNCHANGED <<csmVars, emwVars, rmeVars, loadVars, dlVars, bidmcVars,
                   cosVars, cyiVars, pfVars>>

(***************************************************************************)
(* load_qr_respiratory_data (respiratory_pattern_classification.py) and    *)
(* load_respiratory_data (test_model_on_app_data.py)                       *)
(***************************************************************************)

\* Bound: the number of files the glob matches.
MaxFiles == 2

\* A log file is its lines, each named by what it holds: a header field
\* ("ID", "BR" for 'Breathing Rate:', "AVG" for 'Average Amplitude:'),
\* "AgeBad" for an 'Age:' line whose value is no integer, "TS" for the
\* column line 'timestamp,amplitude,velocity,breathing_phase', "TSonly" for a
\* column line with 'timestamp' but no other column of the app, and "DATA"
\* for a data row.  An unreadable file makes open() raise.
LogFiles ==
    {[readable |-> TRUE, lines |-> <<"ID", "BR", "AVG", "TS", "DATA", "DATA">>],
     [readable |-> TRUE, lines |-> <<"ID", "BR", "AVG", "DATA">>],
     [readable |-> TRUE, lines |-> <<"ID", "AVG", "TS", "DATA">>],
     [readable |-> TRUE, lines |-> <<"BR", "TS", "DATA">>],
     [readable |-> TRUE, lines |-> <<"AgeBad", "BR", "AVG", "TS", "DATA">>],
     [readable |-> TRUE, lines |-> <<"BR", "AVG", "TSonly", "DATA">>],
     [readable |-> FALSE, lines |-> <<>>]}

FileLists == UNION {[1..n -> LogFiles] : n \in 0..MaxFiles}

Unbound == -1

IsTimestampLine(l) == l \in {"TS", "TSonly"}

\* 0-based index of the first line containing 'timestamp', or Unbound.
first_timestamp(lines) ==
    IF \E k \in 1..Len(lines) : IsTimestampLine(lines[k])
      THEN (CHOOSE k \in 1..Len(lines) :
               /\ IsTimestampLine(lines[k])
               /\ \A j \in 1..(k - 1) : ~IsTimestampLine(lines[j])) - 1
      ELSE Unbound

\* The lines the header loop looks at: up to the break at the timestamp line.
scanned(lines) ==
    IF first_timestamp(lines) = Unbound THEN 1..Len(lines)
                                        ELSE 1..(first_timestamp(lines) + 1)

has_field(lines, f) == \E k \in scanned(lines) : lines[k] = f

\* The comma-separated fields of a line: the column line of the app and a
\* data row have four, a header field line or a bare 'timestamp' has one.
fields(l) == IF l \in {"TS", "DATA"} THEN 4 ELSE 1

\* The number of columns of the table: the column line and the first data
\* line are read as they come, and the wider of the two sets the width.
width(lines, h) ==
    IF h + 2 <= Len(lines)
      THEN IF fields(lines[h + 2]) > fields(lines[h + 1])
             THEN fields(lines[h + 2]) ELSE fields(lines[h + 1])
      ELSE fields(lines[h + 1])

\* pd.read_csv(file_path, skiprows=h): the line after the skipped ones names
\* the columns.  Nothing left to parse is an EmptyDataError.  From the second
\* data line on, a line with more fields than the table has columns is a
\* ParserError; a line with fewer is padded with missing values and kept as
\* a row (a first data line wider than the column line is no error, the
\* extra fields become the index).
read_csv(lines, h) ==
    IF h >= Len(lines) THEN [error |-> TRUE, columns |-> "none", nrows |-> 0]
    ELSE IF \E j \in (h + 3)..Len(lines) : fields(lines[j]) > width(lines, h)
      THEN [error |-> TRUE, columns |-> "none", nrows |-> 0]
    ELSE [error |-> FALSE,
          columns |-> CASE lines[h + 1] = "TS" -> "app"
                        [] lines[h + 1] = "TSonly" -> "timestamp"
                        [] OTHER -> "other",
          nrows |-> Len(lines) - (h + 1)]

\* The body of the try block for file number k with header_index h on entry.
\* Gives the header_index left behind, the rows appended to all_data and
\* whether an exception reached the handler.  header_index is assigned only
\* when the header loop reaches the timestamp line: not when the file cannot
\* be read, nor when a header line before it fails to parse.
process_file(which, f, k, h) ==
    LET h2 == IF /\ f.readable
                 /\ ~has_field(f.lines, "AgeBad")
                 /\ first_timestamp(f.lines) # Unbound
                THEN first_timestamp(f.lines) ELSE h
        df == read_csv(f.lines, h2)
        row == [file |-> k, skiprows |-> h2, columns |-> df.columns,
                breathing_rate |-> has_field(f.lines, "BR"),
                avg_amplitude |-> has_field(f.lines, "AVG")]
        failed(rows) == [header_index |-> h2, rows |-> rows, error |-> TRUE]
        done(rows) == [header_index |-> h2, rows |-> rows, error |-> FALSE]
    IN  IF ~f.readable THEN failed(<<>>)                        \* open / read
        ELSE IF has_field(f.lines, "AgeBad") THEN failed(<<>>)  \* int(): ValueError
        ELSE IF h2 = Unbound THEN failed(<<>>)                  \* UnboundLocalError
        ELSE IF df.error THEN failed(<<>>)        \* EmptyDataError, ParserError
        ELSE IF which = "load_respiratory_data" THEN done(<<row>>)
        ELSE IF df.columns # "app" THEN failed(<<>>)            \* KeyError
        ELSE IF ~row.avg_amplitude THEN failed(<<>>)            \* None > 0
        ELSE IF ~row.breathing_rate THEN failed(<<row>>)        \* format of None
        ELSE done(<<row>>)

\* The message printed for a file that went through.
loaded_message(which) ==
    IF which = "load_respiratory_data" THEN "Loaded" ELSE "Processed"

load_Init ==
    /\ files \in (IF script \in {"load_qr_respiratory_data", "load_respiratory_data"}
                    THEN FileLists ELSE {<<>>})
    /\ header_index = Unbound
    /\ all_data = <<>>
    /\ processed = <<>>

\* A slip: no try/except around the loop body.
load_File_NoTry ==
    /\ script \in {"load_qr_respiratory_data", "load_respiratory_data"}
    /\ pc = "start"
    /\ Len(processed) < Len(files)
    /\ LET k == Len(processed) + 1
           r == process_file(script, files[k], k, header_index)
       IN /\ processed' = Append(processed, k)
          /\ header_index' = r.header_index
          /\ all_data' = all_data \o r.rows
          /\ IF r.error
               THEN /\ log' = log
                    /\ Finish("raised")
               ELSE /\ log' = Append(log, Msg(loaded_message(script), k))
                    /\ UNCHANGED <<script, pc, ret, exit_code>>
    /\ UNCHANGED files
    /\ UNCHANGED <<csmVars, emwVars, rmeVars, catmVars, dlVars, bidmcVars,
                   cosVars, cyiVars, pfVars>>

\* One iteration of `for file_path in files`, the except handler included.
load_File ==
    /\ script \in {"load_qr_respiratory_data", "load_respiratory_data"}
    /\ pc = "start"
    /\ Len(processed) < Len(files)
    /\ LET k == Len(processed) + 1
           r == process_file(script, files[k], k, header_index)
       IN /\ processed' = Append(processed, k)
          /\ header_index' = r.header_index
          /\ all_data' = all_data \o r.rows
          /\ log' = Append(log, Msg(IF r.error THEN "Error loading"
                                               ELSE loaded_message(script), k))
    /\ UNCHANGED <<script, pc, ret, exit_code, files>>
    /\ UNCHANGED <<csmVars, emwVars, rmeVars, catmVars, dlVars, bidmcVars,
                   cosVars, cyiVars, pfVars>>

\* After the loop: the frame, or the ValueError.
load_Return ==
    /\ script \in {"load_qr_respiratory_data", "load_respiratory_data"}
    /\ pc = "start"
    /\ Len(processed) = Len(files)
    /\ Finish(IF all_data # <<>> THEN "DataFrame" ELSE "ValueError")
    /\ UNCHANGED <<log, loadVars>>
    /\ UNCHANGED <<csmVars, emwVars, rmeVars, catmVars, dlVars, bidmcVars,
                   cosVars, cyiVars, pfVars>>

(***************************************************************************)
(* download_coco_model.py and download_coco_model_updated.py               *)
(***************************************************************************)

DownloadScripts == {"download_coco_model", "download_coco_model_updated"}

\* Bound: the runs of the download scripts made one after the other on the
\* same assets directory.
MaxRuns == 2

models == <<"yolov5s_coco.tflite", "yolov5n_coco.tflite">>

\* The `filename` entries of the models of download_coco_model_updated.py.
models_updated == <<"yolov8s_coco.tflite", "yolov5s.pt">>

AssetNames == {"qr_yolov5_tiny.tflite", "qr_yolov5_tiny.tflite.backup",
               "yolov5s_coco.tflite", "yolov5n_coco.tflite",
               "yolov8s_coco.tflite", "yolov5s.pt",
               "person_detection_config.json"}

\* The names that assets_dir.glob("*.tflite") gives.
TfliteNames == {"qr_yolov5_tiny.tflite", "yolov5s_coco.tflite",
                "yolov5n_coco.tflite", "yolov8s_coco.tflite"}

NoAssets == [n \in AssetNames |-> "absent"]

\* The assets directory before the first run: file name -> content ("absent"
\* when there is no such file).
AssetStates ==
    {a \in [AssetNames -> {"absent", "old", "qr_v1", "qr_v0"}] :
        /\ a["qr_yolov5_tiny.tflite"] \in {"absent", "qr_v1"}
        /\ a["qr_yolov5_tiny.tflite.backup"] \in {"absent", "qr_v0"}
        /\ a["yolov5s_coco.tflite"] \in {"absent", "old"}
        /\ a["yolov5n_coco.tflite"] \in {"absent", "old"}
        /\ a["yolov8s_coco.tflite"] \in {"absent", "old"}
        /\ a["yolov5s.pt"] = "absent"
        /\ a["person_detection_config.json"] = "absent"}

dl_Init ==
    /\ assets \in (IF script = "download_coco_model"
                     THEN {a \in AssetStates : a["yolov8s_coco.tflite"] = "absent"}
                   ELSE IF script = "download_coco_model_updated"
                     THEN {a \in AssetStates : /\ a["yolov5s_coco.tflite"] = "absent"
                                               /\ a["yolov5n_coco.tflite"] = "absent"}
                   ELSE {NoAssets})
    /\ attempts = <<>>
    /\ runs = 1

\* A backup step that renames whenever the QR model exists.
dl_Backup_Overwrite ==
    /\ script \in DownloadScripts
    /\ pc = "start"
    /\ IF assets["qr_yolov5_tiny.tflite"] # "absent"
         THEN /\ assets' = [assets EXCEPT
                    !["qr_yolov5_tiny.tflite.backup"] = assets["qr_yolov5_tiny.tflite"],
                    !["qr_yolov5_tiny.tflite"] = "absent"]
              /\ log' = Append(log, Msg("Backed up QR model", 0))
         ELSE UNCHANGED <<assets, log>>
    /\ pc' = IF script = "download_coco_model" THEN "dl_loop" ELSE "dlu_config"
    /\ UNCHANGED <<script, ret, exit_code, attempts, runs>>
    /\ UNCHANGED <<csmVars, emwVars, rmeVars, catmVars, loadVars, bidmcVars,
                   cosVars, cyiVars, pfVars>>

\* download_coco_model.py lines 53-59 and download_coco_model_updated.py
\* lines 64-70: back up the QR model unless a backup exists.
dl_Backup ==
    /\ script \in DownloadScripts
    /\ pc = "start"
    /\ IF /\ assets["qr_yolov5_tiny.tflite"] # "absent"
          /\ assets["qr_yolov5_tiny.tflite.backup"] = "absent"
         THEN /\ assets' = [assets EXCEPT
                    !["qr_yolov5_tiny.tflite.backup"] = assets["qr_yolov5_tiny.tflite"],
                    !["qr_yolov5_tiny.tflite"] = "absent"]
              /\ log' = Append(log, Msg("Backed up QR model", 0))
         ELSE UNCHANGED <<assets, log>>
    /\ pc' = IF script = "download_coco_model" THEN "dl_loop" ELSE "dlu_config"
    /\ UNCHANGED <<script, ret, exit_code, attempts, runs>>
    /\ UNCHANGED <<csmVars, emwVars, rmeVars, catmVars, loadVars, bidmcVars,
                   cosVars, cyiVars, pfVars>>

\* download_file: the request or raise_for_status fails before the file is
\* opened; a failure while streaming leaves the opened file partly written.
download_file(content, outcome) ==
    CASE outcome = "ok" -> "complete"
      [] outcome = "stream_error" -> "partial"
      [] OTHER -> content

DownloadOutcomes == {"ok", "connection_error", "http_error", "stream_error"}

\* A slip: download_file is called outside any try.
dl_Download_NoTry ==
    /\ script = "download_coco_model"
    /\ pc = "dl_loop"
    /\ Len(attempts) < Len(models)
    /\ LET k == Len(attempts) + 1 IN
       \E outcome \in DownloadOutcomes :
          /\ attempts' = Append(attempts, k)
          /\ assets' = [assets EXCEPT ![models[k]] = download_file(@, outcome)]
          /\ IF outcome = "ok"
               THEN /\ log' = Append(log, Msg("Downloaded", k))
                    /\ UNCHANGED <<pc, ret, exit_code>>
               ELSE /\ log' = Append(log, Msg("Traceback", k))
                    /\ pc' = "done"
                    /\ ret' = "raised"
                    /\ exit_code' = 1
    /\ UNCHANGED <<script, runs>>
    /\ UNCHANGED <<csmVars, emwVars, rmeVars, catmVars, loadVars, bidmcVars,
                   cosVars, cyiVars, pfVars>>

\* One iteration of `for model in models`: the try, and the except with
\* its `continue`.
dl_Download ==
    /\ script = "download_coco_model"
    /\ pc = "dl_loop"
    /\ Len(attempts) < Len(models)
    /\ LET k == Len(attempts) + 1 IN
       \E outcome \in DownloadOutcomes :
          /\ attempts' = Append(attempts, k)
          /\ assets' = [assets EXCEPT ![models[k]] = download_file(@, outcome)]
          /\ log' = Append(log, Msg(IF outcome = "ok" THEN "Downloaded"
                                                      ELSE "Failed to download", k))
    /\ UNCHANGED <<script, pc, ret, exit_code, runs>>
    /\ UNCHANGED <<csmVars, emwVars, rmeVars, catmVars, loadVars, bidmcVars,
                   cosVars, cyiVars, pfVars>>

\* Lines 70-82: the closing messages and the listing of *.tflite.
dl_Listing ==
    /\ script = "download_coco_model"
    /\ pc = "dl_loop"
    /\ Len(attempts) = Len(models)
    /\ log' = Append(log, Msg("Files in assets",
                              Cardinality({n \in TfliteNames : assets[n] # "absent"})))
    /\ pc' = "done"
    /\ ret' = "None"
    /\ exit_code' = 0
    /\ UNCHANGED <<script, dlVars>>
    /\ UNCHANGED <<csmVars, emwVars, rmeVars, catmVars, loadVars, bidmcVars,
                   cosVars, cyiVars, pfVars>>

\* download_file_requests: as download_file, the file is opened once the
\* response has arrived and is written chunk by chunk.
download_file_requests(content, outcome) ==
    CASE outcome = "ok" -> "complete"
      [] outcome = "stream_error" -> "partial"
      [] OTHER -> content

\* download_file_urllib: urlretrieve opens the URL, then the file, and
\* copies block by block.
download_file_urllib(content, outcome) ==
    CASE outcome = "ok" -> "complete"
      [] outcome = "stream_error" -> "partial"
      [] OTHER -> content

\* download_coco_model_updated.py lines 107-111: the configuration file is
\* written outside any try.
dlu_Config ==
    /\ script = "download_coco_model_updated"
    /\ pc = "dlu_config"
    /\ \E fail \in {"none", "open", "write"} :
          /\ assets' = [assets EXCEPT !["person_detection_config.json"] =
                           CASE fail = "none" -> "complete"
                             [] fail = "write" -> "partial"
                             [] OTHER -> @]
          /\ IF fail = "none"
               THEN /\ log' = Append(log, Msg("Created configuration file", 0))
                    /\ pc' = "dlu_loop"
                    /\ UNCHANGED <<ret, exit_code>>
               ELSE /\ log' = Append(log, Msg("Traceback", 0))
                    /\ pc' = "done"
                    /\ ret' = "raised"
                    /\ exit_code' = 1
    /\ UNCHANGED <<script, attempts, runs>>
    /\ UNCHANGED <<csmVars, emwVars, rmeVars, catmVars, loadVars, bidmcVars,
                   cosVars, cyiVars, pfVars>>

\* Lines 115-123, one iteration: requests first, urllib when that returned
\* False; each of the two logs its own outcome.
dlu_Download ==
    /\ script = "download_coco_model_updated"
    /\ pc = "dlu_loop"
    /\ Len(attempts) < Len(models_updated)
    /\ LET k == Len(attempts) + 1 IN
       \E o1, o2 \in DownloadOutcomes :
          LET c1 == download_file_requests(assets[models_updated[k]], o1)
          IN /\ o1 = "ok" => o2 = "ok"
             /\ attempts' = Append(attempts, k)
             /\ assets' = [assets EXCEPT ![models_updated[k]] =
                              IF o1 = "ok" THEN c1
                                           ELSE download_file_urllib(c1, o2)]
             /\ log' = IF o1 = "ok"
                         THEN Append(log, Msg("Downloaded", k))
                         ELSE log \o <<Msg("Failed to download", k),
                                       Msg(IF o2 = "ok" THEN "Downloaded"
                                           ELSE "Failed to download", k)>>
    /\ UNCHANGED <<script, pc, ret, exit_code, runs>>
    /\ UNCHANGED <<csmVars, emwVars, rmeVars, catmVars, loadVars, bidmcVars,
                   cosVars, cyiVars, pfVars>>

\* Lines 125-151: the count of successes and the listing of the directory.
dlu_Listing ==
    /\ script = "download_coco_model_updated"
    /\ pc = "dlu_loop"
    /\ Len(attempts) = Len(models_updated)
    /\ log' = Append(log, Msg("Download complete",
                 Cardinality({k \in 1..Len(attempts) : (\E j \in 1..Len(log) : log[j] = Msg("Downloaded", k))})))
    /\ pc' = "done"
    /\ ret' = "None"
    /\ exit_code' = 0
    /\ UNCHANGED <<script, dlVars>>
    /\ UNCHANGED <<csmVars, emwVars, rmeVars, catmVars, loadVars, bidmcVars,
                   cosVars, cyiVars, pfVars>>

\* Between two runs somebody puts a new QR model into the assets directory
\* (the file that the next run finds at lines 54-55 / 65-66).
dl_PlaceModel ==
    /\ script \in DownloadScripts
    /\ pc = "done"
    /\ runs < MaxRuns
    /\ assets["qr_yolov5_tiny.tflite"] # "qr_v2"
    /\ assets' = [assets EXCEPT !["qr_yolov5_tiny.tflite"] = "qr_v2"]
    /\ UNCHANGED <<common, attempts, runs>>
    /\ UNCHANGED <<csmVars, emwVars, rmeVars, catmVars, loadVars, bidmcVars,
                   cosVars, cyiVars, pfVars>>

\* One of the two scripts is run again on the same assets directory: a new
\* process, with its own console and its own loop.
dl_Rerun ==
    /\ script \in DownloadScripts
    /\ pc = "done"
    /\ runs < MaxRuns
    /\ script' \in DownloadScripts
    /\ pc' = "start"
    /\ ret' = "running"
    /\ exit_code' = -1
    /\ log' = <<>>
    /\ attempts' = <<>>
    /\ runs' = runs + 1
    /\ UNCHANGED assets
    /\ UNCHANGED <<csmVars, emwVars, rmeVars, catmVars, loadVars, bidmcVars,
                   cosVars, cyiVars, pfVars>>

(***************************************************************************)
(* load_bidmc_data (respiratory_pattern_classification.py)                 *)
(***************************************************************************)

\* Bound: the function walks subjects 1..53; the model walks 1..MaxSubjects.
MaxSubjects == 2

\* What the files of one subject give: an exception somewhere in the try
\* block ("error"), no usable breath ("no_breaths": the `if` of line 85
\* fails), or the metrics of lines 87-96 ("ok").
SubjectInputs ==
    [kind : {"error", "no_breaths"}, age_line : {"NaN"}, gender : {"F"},
     location : {"ward"}, breathing_rate : {0}, amplitude_variability : {0},
     duration_variability : {0}]
    \cup
    {d \in [kind : {"ok"}, age_line : {"30", "90+", "NaN"}, gender : {"M", "F"},
            location : {"micu", "ward"},
            breathing_rate : {999, 1000, 2400, 2401},
            amplitude_variability : {40, 41},
            duration_variability : {40, 41}] :
        /\ <<d.age_line, d.gender, d.location>> \in
              {<<"30", "M", "micu">>, <<"90+", "F", "ward">>, <<"NaN", "F", "micu">>}
        /\ ~(d.amplitude_variability = 41 /\ d.duration_variability = 41)}

\* Lines 39-44: int(age_line), or 90 for '90+', or 50.
parse_age(age_line) ==
    IF age_line = "30" THEN 30
    ELSE IF age_line = "90+" THEN 90 ELSE 50

\* The rule the comment of line 102 describes and line 109 removed.
is_abnormal_with_location(d) ==
    \/ d.breathing_rate < 1000
    \/ d.breathing_rate > 2400
    \/ d.amplitude_variability > 40
    \/ d.duration_variability > 40
    \/ d.location = "micu"

\* Lines 104-110.
is_abnormal(d) ==
    \/ d.breathing_rate < 1000
    \/ d.breathing_rate > 2400
    \/ d.amplitude_variability > 40
    \/ d.duration_variability > 40

\* Lines 112-124.
subject_data(id, d) ==
    [subject_id |-> id,
     age |-> parse_age(d.age_line),
     gender |-> IF d.gender = "M" THEN 1 ELSE 0,
     breathing_rate |-> d.breathing_rate,
     amplitude_variability |-> d.amplitude_variability,
     duration_variability |-> d.duration_variability,
     abnormal |-> IF is_abnormal(d) THEN 1 ELSE 0]

bidmc_Init ==
    /\ subject_id = 1
    /\ all_subjects = <<>>
    /\ attempted = <<>>

\* A slip: the record is appended before the part of the body that raises.
bidmc_Subject_AppendFirst ==
    /\ script = "load_bidmc_data"
    /\ pc = "start"
    /\ subject_id <= MaxSubjects
    /\ \E d \in SubjectInputs :
          /\ all_subjects' = IF d.kind = "no_breaths" THEN all_subjects
                             ELSE Append(all_subjects, subject_data(subject_id, d))
          /\ log' = IF d.kind = "no_breaths" THEN log
                    ELSE Append(log, Msg(IF d.kind = "ok"
                                           THEN "Processed subject"
                                           ELSE "Error processing subject",
                                         subject_id))
    /\ attempted' = Append(attempted, subject_id)
    /\ subject_id' = subject_id + 1
    /\ UNCHANGED <<script, pc, ret, exit_code>>
    /\ UNCHANGED <<csmVars, emwVars, rmeVars, catmVars, loadVars, dlVars,
                   cosVars, cyiVars, pfVars>>

\* One iteration of `for subject_id in subject_ids`, the handler included.
bidmc_Subject ==
    /\ script = "load_bidmc_data"
    /\ pc = "start"
    /\ subject_id <= MaxSubjects
    /\ \E d \in SubjectInputs :
          /\ all_subjects' = IF d.kind = "ok"
                               THEN Append(all_subjects, subject_data(subject_id, d))
                               ELSE all_subjects
          /\ log' = IF d.kind = "no_breaths" THEN log
                    ELSE Append(log, Msg(IF d.kind = "ok"
                                           THEN "Processed subject"
                                           ELSE "Error processing subject",
                                         subject_id))
    /\ attempted' = Append(attempted, subject_id)
    /\ subject_id' = subject_id + 1
    /\ UNCHANGED <<script, pc, ret, exit_code>>
    /\ UNCHANGED <<csmVars, emwVars, rmeVars, catmVars, loadVars, dlVars,
                   cosVars, cyiVars, pfVars>>

\* Lines 132-138: the class balance and the frame.
bidmc_Return ==
    /\ script = "load_bidmc_data"
    /\ pc = "start"
    /\ subject_id > MaxSubjects
    /\ log' = IF all_subjects # <<>>
                THEN Append(log, Msg("Class distribution", Len(all_subjects)))
                ELSE log
    /\ Finish("DataFrame")
    /\ UNCHANGED bidmcVars
    /\ UNCHANGED <<csmVars, emwVars, rmeVars, catmVars, loadVars, dlVars,
                   cosVars, cyiVars, pfVars>>

(***************************************************************************)
(* model_setup/convert_onnx_simple.py                                      *)
(***************************************************************************)

\* The files the function touches.  onnx: qr_yolov5_tiny.onnx exists;
\* fixed_onnx: qr_yolov5_tiny_fixed.onnx exists; tf_model: the directory
\* tf_model_fixed exists; tflite: content of qr_yolov5_tiny_new.tflite;
\* app_main: the directory app/src/main exists; assets_dir: its assets
\* directory exists; assets_model: content of assets/qr_yolov5_tiny.tflite.
CosFiles ==
    {f \in [onnx : BOOLEAN, fixed_onnx : {FALSE}, tf_model : {FALSE},
            tflite : {"absent", "old"}, app_main : BOOLEAN,
            assets_dir : BOOLEAN, assets_model : {"absent", "old"}] :
        /\ f.assets_dir => f.app_main
        /\ f.assets_model # "absent" => f.assets_dir}

NoCosFiles == [onnx |-> FALSE, fixed_onnx |-> FALSE, tf_model |-> FALSE,
               tflite |-> "absent", app_main |-> FALSE, assets_dir |-> FALSE,
               assets_model |-> "absent"]

cos_Init ==
    /\ cos_fs0 \in (IF script = "convert_onnx_simple" THEN CosFiles
                                                      ELSE {NoCosFiles})
    /\ cos_fs = cos_fs0
    /\ conversions = <<>>
    /\ cos_raised = "none"

\* The function returns False (from a handler or from line 30).
cos_False(m) ==
    /\ log' = Append(log, Msg(m, 0))
    /\ ret' = "False"
    /\ pc' = "cos_exit"
    /\ UNCHANGED <<script, exit_code>>

\* Lines 28-30.
cos_CheckOnnx ==
    /\ script = "convert_onnx_simple"
    /\ pc = "start"
    /\ IF ~cos_fs.onnx
         THEN cos_False("ONNX model not found")
         ELSE /\ pc' = "cos_prepare"
              /\ UNCHANGED <<script, ret, exit_code, log>>
    /\ UNCHANGED cosVars
    /\ UNCHANGED <<csmVars, emwVars, rmeVars, catmVars, loadVars, dlVars,
                   bidmcVars, cyiVars, pfVars>>

\* Lines 32-72 under the outer handlers: the imports, onnx.load and the batch
\* fix, onnx.save of the fixed model, prepare/export_graph of the SavedModel,
\* and the converter.  `fail` names the first call that raises.
cos_Prepare ==
    /\ script = "convert_onnx_simple"
    /\ pc = "cos_prepare"
    /\ \E fail \in {"none", "import", "load", "save", "export", "converter"} :
          /\ cos_fs' = [cos_fs EXCEPT
                          !.fixed_onnx = fail \in {"none", "export", "converter"},
                          !.tf_model = fail \in {"none", "converter"}]
          /\ CASE fail = "none" ->
                    /\ pc' = "cos_primary"
                    /\ UNCHANGED <<script, ret, exit_code, log>>
               [] fail = "import" -> cos_False("Missing dependencies")
               [] OTHER -> cos_False("Error during conversion")
    /\ UNCHANGED <<cos_fs0, conversions, cos_raised>>
    /\ UNCHANGED <<csmVars, emwVars, rmeVars, catmVars, loadVars, dlVars,
                   bidmcVars, cyiVars, pfVars>>

\* Lines 74-118, the inner try: convert, write the model, test it with the
\* interpreter, mkdir(exist_ok=True) of the assets directory, copy2, rmtree
\* of the SavedModel.  copy2 may fail before it touches the target or break
\* off and leave it partly written.  Any exception goes to the handler of
\* line 120, which
\* logs it; cos_raised keeps the call it came from.
cos_Primary ==
    /\ script = "convert_onnx_simple"
    /\ pc = "cos_primary"
    /\ conversions' = Append(conversions, "primary")
    /\ \E fail \in {"none", "convert", "open", "write", "test", "copy",
                    "copy_partial", "rmtree"} :
          LET written == fail \notin {"convert", "open", "write"}
              mkdir_ok == cos_fs.assets_dir \/ cos_fs.app_main
              copying == written /\ fail # "test" /\ mkdir_ok
              copied == copying /\ fail \notin {"copy", "copy_partial"}
              ok == copied /\ fail # "rmtree"
          IN /\ cos_fs' = [cos_fs EXCEPT
                   !.tflite = IF written THEN "primary"
                              ELSE IF fail = "write" THEN "partial" ELSE @,
                   !.assets_dir = IF written /\ fail # "test" /\ mkdir_ok
                                    THEN TRUE ELSE @,
                   !.assets_model = IF copied THEN "primary"
                                    ELSE IF copying /\ fail = "copy_partial"
                                      THEN "partial" ELSE @,
                   !.tf_model = IF ok THEN FALSE ELSE @]
             /\ IF ok
                  THEN /\ log' = Append(log, Msg("Conversion completed successfully!", 0))
                       /\ ret' = "True"
                       /\ pc' = "cos_exit"
                  ELSE /\ log' = Append(log, Msg("TFLite conversion failed", 0))
                       /\ pc' = "cos_alternative"
                       /\ ret' = ret
             /\ cos_raised' = IF ok THEN "none"
                              ELSE IF written /\ fail # "test" /\ ~mkdir_ok
                                     THEN "mkdir"
                              ELSE IF fail = "copy_partial" THEN "copy"
                              ELSE fail
    /\ UNCHANGED <<script, exit_code, cos_fs0>>
    /\ UNCHANGED <<csmVars, emwVars, rmeVars, catmVars, loadVars, dlVars,
                   bidmcVars, cyiVars, pfVars>>

\* A slip: the alternative path reports success whatever the copy did.
cos_Alternative_CopyUnchecked ==
    /\ script = "convert_onnx_simple"
    /\ pc = "cos_alternative"
    /\ conversions' = Append(conversions, "alternative")
    /\ LET copied == cos_fs.assets_dir
       IN /\ cos_fs' = [cos_fs EXCEPT
                !.tflite = "alternative",
                !.assets_model = IF copied THEN "alternative" ELSE @]
          /\ log' = Append(log, Msg("Alternative conversion successful", 0))
          /\ ret' = "True"
          /\ pc' = "cos_exit"
    /\ UNCHANGED <<script, exit_code, cos_fs0, cos_raised>>
    /\ UNCHANGED <<csmVars, emwVars, rmeVars, catmVars, loadVars, dlVars,
                   bidmcVars, cyiVars, pfVars>>

\* Lines 120-149, the handler: the converter is set up again (an exception
\* here goes to the outer handler), then convert, write and copy2 inside the
\* second inner try.  The assets directory is not created on this path.
\* 'Alternative conversion successful' is logged once the file is written
\* (line 138), before the copy; a copy that breaks off leaves the assets
\* model partly written.
cos_Alternative ==
    /\ script = "convert_onnx_simple"
    /\ pc = "cos_alternative"
    /\ \E fail \in {"none", "setup", "convert", "open", "write", "copy",
                    "copy_partial"} :
          LET written == fail \notin {"setup", "convert", "open", "write"}
              copying == written /\ cos_fs.assets_dir
              copied == copying /\ fail \notin {"copy", "copy_partial"}
          IN /\ conversions' = IF fail = "setup" THEN conversions
                               ELSE Append(conversions, "alternative")
             /\ cos_fs' = [cos_fs EXCEPT
                   !.tflite = IF written THEN "alternative"
                              ELSE IF fail = "write" THEN "partial" ELSE @,
                   !.assets_model = IF copied THEN "alternative"
                                    ELSE IF copying /\ fail = "copy_partial"
                                      THEN "partial" ELSE @]
             /\ IF copied
                  THEN /\ log' = Append(log, Msg("Alternative conversion successful", 0))
                       /\ ret' = "True"
                       /\ pc' = "cos_exit"
                       /\ UNCHANGED <<script, exit_code>>
                  ELSE IF fail = "setup"
                         THEN cos_False("Error during conversion")
                  ELSE IF written
                         THEN /\ log' = log \o
                                   <<Msg("Alternative conversion successful", 0),
                                     Msg("Alternative conversion also failed", 0)>>
                              /\ ret' = "False"
                              /\ pc' = "cos_exit"
                              /\ UNCHANGED <<script, exit_code>>
                         ELSE cos_False("Alternative conversion also failed")
    /\ UNCHANGED <<cos_fs0, cos_raised>>
    /\ UNCHANGED <<csmVars, emwVars, rmeVars, catmVars, loadVars, dlVars,
                   bidmcVars, cyiVars, pfVars>>

\* Lines 161-167: exit status 1 after False, 0 otherwise.
cos_Exit ==
    /\ script = "convert_onnx_simple"
    /\ pc = "cos_exit"
    /\ exit_code' = IF ret = "True" THEN 0 ELSE 1
    /\ pc' = "done"
    /\ UNCHANGED <<script, ret, log, cosVars>>
    /\ UNCHANGED <<csmVars, emwVars, rmeVars, catmVars, loadVars, dlVars,
                   bidmcVars, cyiVars, pfVars>>

(***************************************************************************)
(* model_setup/convert_yolov5_improved.py                                  *)
(***************************************************************************)

\* Most outputs the graph of the ONNX model has.
MaxOutputs == 3

\* An output of the graph: its name and the value of dim[0] of its shape
\* (0 is a dynamic batch dimension).
GraphOutputs == [name : {"output", "det"}, dim0 : {0, 1}]

OutputLists == UNION {[1..n -> GraphOutputs] : n \in 0..MaxOutputs}

\* The files the function touches.  onnx: qr_yolov5_tiny.onnx exists;
\* modified_onnx: modified_qr_yolov5_tiny.onnx exists; tf_saved_model: the
\* directory exists; tflite: content of qr_yolov5_tiny.tflite in the working
\* directory; assets_model: content of ../app/src/main/assets/qr_yolov5_tiny.tflite.
CyiFiles == [onnx : BOOLEAN, modified_onnx : {FALSE}, tf_saved_model : {FALSE},
             tflite : {"absent", "old"}, assets_model : {"absent", "old"}]

NoCyiFiles == [onnx |-> FALSE, modified_onnx |-> FALSE, tf_saved_model |-> FALSE,
               tflite |-> "absent", assets_model |-> "absent"]

\* graph_output is what onnx.load gives for the ONNX file, when there is one.
cyi_Init ==
    /\ cyi_fs0 \in (IF script = "convert_yolov5_improved" THEN CyiFiles
                                                          ELSE {NoCyiFiles})
    /\ cyi_fs = cyi_fs0
    /\ graph_output \in (IF cyi_fs0.onnx THEN OutputLists ELSE {<<>>})
    /\ out_i = 0

\* The function returns (None) after logging m; the script then ends.
cyi_Return(m) ==
    /\ log' = Append(log, Msg(m, 0))
    /\ ret' = "None"
    /\ exit_code' = 0
    /\ pc' = "done"
    /\ UNCHANGED script

\* The function goes on to the step p after logging m.
cyi_Goto(p, m) ==
    /\ log' = Append(log, Msg(m, 0))
    /\ pc' = p
    /\ UNCHANGED <<script, ret, exit_code>>

\* Lines 82-84.
cyi_CheckOnnx ==
    /\ script = "convert_yolov5_improved"
    /\ pc = "start"
    /\ IF ~cyi_fs.onnx
         THEN cyi_Return("ONNX model not found")
         ELSE cyi_Goto("cyi_load", "Loading ONNX model")
    /\ UNCHANGED cyiVars
    /\ UNCHANGED <<csmVars, emwVars, rmeVars, catmVars, loadVars, dlVars,
                   bidmcVars, cosVars, pfVars>>

\* Lines 86-99 under the outer handler: onnx.load, its message (line 88),
\* then verify_model_io and the batch size of the input, which can still
\* raise (a graph without input, an input without dims).
cyi_Load ==
    /\ script = "convert_yolov5_improved"
    /\ pc = "cyi_load"
    /\ \E fail \in {"none", "load", "input"} :
          CASE fail = "none" ->
                  cyi_Goto("cyi_outputs", "ONNX model loaded successfully")
            [] fail = "load" -> cyi_Return("Error during conversion process")
            [] OTHER ->
                  /\ log' = log \o <<Msg("ONNX model loaded successfully", 0),
                                      Msg("Error during conversion process", 0)>>
                  /\ ret' = "None"
                  /\ exit_code' = 0
                  /\ pc' = "done"
                  /\ UNCHANGED script
    /\ UNCHANGED cyiVars
    /\ UNCHANGED <<csmVars, emwVars, rmeVars, catmVars, loadVars, dlVars,
                   bidmcVars, cosVars, pfVars>>

\* graph.output.remove(o): the first element equal to o is taken out.
remove(s, o) ==
    LET k == CHOOSE j \in 1..Len(s) :
                 s[j] = o /\ \A m \in 1..(j - 1) : s[m] # o
    IN SubSeq(s, 1, k - 1) \o SubSeq(s, k + 1, Len(s))

\* Lines 102-109, one turn of `for output in graph.output`: the iterator of
\* the repeated field keeps a position out_i into the live list and stops
\* when the position is past its end; the body removes the output named
\* 'output' from that same list, or sets dim[0] of the output to 1.
cyi_Output ==
    /\ script = "convert_yolov5_improved"
    /\ pc = "cyi_outputs"
    /\ IF out_i < Len(graph_output)
         THEN LET o == graph_output[out_i + 1]
              IN /\ graph_output' =
                       IF o.name = "output"
                         THEN remove(graph_output, o)
                         ELSE [graph_output EXCEPT ![out_i + 1].dim0 = 1]
                 /\ out_i' = out_i + 1
                 /\ UNCHANGED common
         ELSE /\ pc' = "cyi_save"
              /\ UNCHANGED <<script, ret, exit_code, log, graph_output, out_i>>
    /\ UNCHANGED <<cyi_fs0, cyi_fs>>
    /\ UNCHANGED <<csmVars, emwVars, rmeVars, catmVars, loadVars, dlVars,
                   bidmcVars, cosVars, pfVars>>

\* Lines 111-145 under the outer handler: onnx.save of the modified model,
\* onnx.load of it, prepare and export_graph of the SavedModel, and the
\* converter.  `fail` names the first call that raises.
cyi_Save ==
    /\ script = "convert_yolov5_improved"
    /\ pc = "cyi_save"
    /\ \E fail \in {"none", "save", "export", "converter"} :
          /\ cyi_fs' = [cyi_fs EXCEPT
                          !.modified_onnx = fail # "save",
                          !.tf_saved_model = fail \in {"none", "converter"}]
          /\ IF fail = "none"
               THEN cyi_Goto("cyi_convert", "Starting TFLite conversion")
               ELSE cyi_Return("Error during conversion process")
    /\ UNCHANGED <<cyi_fs0, graph_output, out_i>>
    /\ UNCHANGED <<csmVars, emwVars, rmeVars, catmVars, loadVars, dlVars,
                   bidmcVars, cosVars, pfVars>>

\* Lines 148-153: converter.convert() in its own try; the handler returns.
cyi_Convert ==
    /\ script = "convert_yolov5_improved"
    /\ pc = "cyi_convert"
    /\ \E raises \in BOOLEAN :
          IF raises
            THEN cyi_Return("Error during TFLite conversion")
            ELSE cyi_Goto("cyi_write", "TFLite conversion completed successfully")
    /\ UNCHANGED cyiVars
    /\ UNCHANGED <<csmVars, emwVars, rmeVars, catmVars, loadVars, dlVars,
                   bidmcVars, cosVars, pfVars>>

\* Lines 155-160 under the outer handler: open(tflite_path, 'wb') and write.
cyi_Write ==
    /\ script = "convert_yolov5_improved"
    /\ pc = "cyi_write"
    /\ \E fail \in {"none", "open", "write"} :
          /\ cyi_fs' = [cyi_fs EXCEPT
                          !.tflite = CASE fail = "none" -> "new"
                                       [] fail = "write" -> "partial"
                                       [] OTHER -> @]
          /\ IF fail = "none"
               THEN cyi_Goto("cyi_verify", "TFLite model saved")
               ELSE cyi_Return("Error during conversion process")
    /\ UNCHANGED <<cyi_fs0, graph_output, out_i>>
    /\ UNCHANGED <<csmVars, emwVars, rmeVars, catmVars, loadVars, dlVars,
                   bidmcVars, cosVars, pfVars>>

\* A verification whose handler logs the error and lets the function go on.
cyi_Verify_NoReturn ==
    /\ script = "convert_yolov5_improved"
    /\ pc = "cyi_verify"
    /\ \E fail \in {"none", "interpreter", "verify"} :
          CASE fail = "none" ->
                  cyi_Goto("cyi_copy", "Successfully ran inference on test input")
            [] fail = "verify" ->
                  cyi_Goto("cyi_copy", "Error during model verification")
            [] OTHER -> cyi_Return("Error during conversion process")
    /\ UNCHANGED cyiVars
    /\ UNCHANGED <<csmVars, emwVars, rmeVars, catmVars, loadVars, dlVars,
                   bidmcVars, cosVars, pfVars>>

\* Lines 162-201: the Interpreter is built under the outer handler only;
\* allocate_tensors and the test inference run in their own try, whose
\* handler returns.
cyi_Verify ==
    /\ script = "convert_yolov5_improved"
    /\ pc = "cyi_verify"
    /\ \E fail \in {"none", "interpreter", "verify"} :
          CASE fail = "none" ->
                  cyi_Goto("cyi_copy", "Successfully ran inference on test input")
            [] fail = "verify" ->
                  cyi_Return("Error during model verification")
            [] OTHER -> cyi_Return("Error during conversion process")
    /\ UNCHANGED cyiVars
    /\ UNCHANGED <<csmVars, emwVars, rmeVars, catmVars, loadVars, dlVars,
                   bidmcVars, cosVars, pfVars>>

\* Lines 203-208 under the outer handler: makedirs(exist_ok=True) and copy2
\* of the model into the assets directory.  A copy that breaks off leaves a
\* partial file.
cyi_Copy ==
    /\ script = "convert_yolov5_improved"
    /\ pc = "cyi_copy"
    /\ \E fail \in {"none", "makedirs", "copy_open", "copy_write"} :
          /\ cyi_fs' = [cyi_fs EXCEPT
                          !.assets_model = CASE fail = "none" -> cyi_fs.tflite
                                             [] fail = "copy_write" -> "partial"
                                             [] OTHER -> @]
          /\ IF fail = "none"
               THEN cyi_Goto("cyi_cleanup", "Model copied to Android assets")
               ELSE cyi_Return("Error during conversion process")
    /\ UNCHANGED <<cyi_fs0, graph_output, out_i>>
    /\ UNCHANGED <<csmVars, emwVars, rmeVars, catmVars, loadVars, dlVars,
                   bidmcVars, cosVars, pfVars>>

\* Lines 210-215 under the outer handler: the SavedModel and the modified
\* ONNX file are removed, the first of them first.
cyi_Cleanup ==
    /\ script = "convert_yolov5_improved"
    /\ pc = "cyi_cleanup"
    /\ \E fail \in {"none", "rmtree", "remove"} :
          /\ cyi_fs' = [cyi_fs EXCEPT
                          !.tf_saved_model = IF fail = "rmtree" THEN @ ELSE FALSE,
                          !.modified_onnx = IF fail = "none" THEN FALSE ELSE @]
          /\ IF fail = "none"
               THEN cyi_Return("Cleaned up temporary files")
               ELSE cyi_Return("Error during conversion process")
    /\ UNCHANGED <<cyi_fs0, graph_output, out_i>>
    /\ UNCHANGED <<csmVars, emwVars, rmeVars, catmVars, loadVars, dlVars,
                   bidmcVars, cosVars, pfVars>>

(***************************************************************************)
(* prepare_features_for_model (test_model_on_app_data.py)                  *)
(***************************************************************************)

\* Most names in the feature_names.json stored with the model.
MaxFeatures == 2

\* The names the loop has a branch for.
KnownFeatures == {"amplitude", "max_velocity", "duration", "phase", "age",
                  "gender", "location"}

\* What feature_names.json may hold: the names above and a name of the
\* models trained by create_sample_model.py.
FeatureNames == KnownFeatures \cup {"breathing_rate"}

FeatureLists == UNION {[1..n -> FeatureNames] : n \in 0..MaxFeatures}

\* features[name] = series: a new column goes to the end of the frame, an
\* existing one is replaced where it stands.
set_column(cols, name) ==
    IF \E k \in 1..Len(cols) : cols[k] = name THEN cols ELSE Append(cols, name)

\* The columns of a frame of load_respiratory_data that the function reads.
AppColumns == {"amplitude", "velocity", "breathing_phase", "gender", "age",
               "patient_id", "total_duration", "total_breaths"}

\* The frames the function is called on: the app's frame, or one that lacks
\* one of its columns.
Frames == {AppColumns} \cup {AppColumns \ {c} : c \in AppColumns}

\* The columns of df that the branch of a feature reads.
needs(feature) ==
    CASE feature = "amplitude" -> {"amplitude"}
      [] feature = "max_velocity" -> {"velocity"}
      [] feature = "duration" -> {"patient_id", "total_duration", "total_breaths"}
      [] feature = "phase" -> {"phase"}
      [] feature = "age" -> {"age"}
      [] feature = "gender" -> {"gender_binary"}
      [] feature = "location" -> {"location"}
      [] OTHER -> {}

\* stored_names is the feature_names argument, the list read from
\* feature_names.json; frame is the set of columns of df.
pf_Init ==
    /\ stored_names \in (IF script = "prepare_features_for_model"
                            THEN FeatureLists ELSE {<<>>})
    /\ frame \in (IF script = "prepare_features_for_model" THEN Frames
                                                           ELSE {{}})
    /\ columns = <<>>
    /\ feature_i = 0

\* Lines 116-126: phase and gender_binary are computed from breathing_phase
\* and gender (KeyError when df lacks one of them, nothing catches it),
\* location is set, and features starts as an empty frame.
pf_Prepare ==
    /\ script = "prepare_features_for_model"
    /\ pc = "start"
    /\ IF {"breathing_phase", "gender"} \subseteq frame
         THEN /\ frame' = frame \cup {"phase", "gender_binary", "location"}
              /\ pc' = "pf_loop"
              /\ UNCHANGED <<script, ret, exit_code>>
         ELSE /\ frame' = IF "breathing_phase" \in frame
                            THEN frame \cup {"phase"} ELSE frame
              /\ Finish("raised")
    /\ UNCHANGED <<log, stored_names, columns, feature_i>>
    /\ UNCHANGED <<csmVars, emwVars, rmeVars, catmVars, loadVars, dlVars,
                   bidmcVars, cosVars, cyiVars>>

\* Lines 128-142, one turn of `for feature in feature_names`: the if/elif
\* chain has no else, a name outside it adds nothing; a branch that reads a
\* column df lacks raises KeyError.
pf_Feature ==
    /\ script = "prepare_features_for_model"
    /\ pc = "pf_loop"
    /\ feature_i < Len(stored_names)
    /\ LET feature == stored_names[feature_i + 1]
       IN IF needs(feature) \subseteq frame
            THEN /\ columns' = IF feature \in KnownFeatures
                                 THEN set_column(columns, feature)
                                 ELSE columns
                 /\ feature_i' = feature_i + 1
                 /\ UNCHANGED <<script, pc, ret, exit_code>>
            ELSE /\ Finish("raised")
                 /\ UNCHANGED <<columns, feature_i>>
    /\ UNCHANGED <<log, stored_names, frame>>
    /\ UNCHANGED <<csmVars, emwVars, rmeVars, catmVars, loadVars, dlVars,
                   bidmcVars, cosVars, cyiVars>>

\* Line 144: return features.
pf_Return ==
    /\ script = "prepare_features_for_model"
    /\ pc = "pf_loop"
    /\ feature_i = Len(stored_names)
    /\ Finish("DataFrame")
    /\ UNCHANGED <<log, pfVars>>
    /\ UNCHANGED <<csmVars, emwVars, rmeVars, catmVars, loadVars, dlVars,
                   bidmcVars, cosVars, cyiVars>>

(***************************************************************************)
(* One run of one script                                                   *)
(***************************************************************************)

Init ==
    /\ script \in Scripts
    /\ pc = "start"
    /\ ret = "running"
    /\ exit_code = -1
    /\ log = <<>>
    /\ csm_Init
    /\ emw_Init
    /\ rme_Init
    /\ catm_Init
    /\ load_Init
    /\ dl_Init
    /\ bidmc_Init
    /\ cos_Init
    /\ cyi_Init
    /\ pf_Init

Next ==
    \/ csm_Label
    \/ csm_FitAndSave
    \/ emw_Load
    \/ emw_Build
    \/ emw_Open
    \/ emw_Dump
    \/ rme_Step1
    \/ rme_Step2
    \/ rme_Exit
    \/ catm_EnsureTensorflow
    \/ catm_RunClassification
    \/ catm_ConvertModel
    \/ catm_TestModel
    \/ catm_CopyInstructions
    \/ load_File
    \/ load_Return
    \/ dl_Backup
    \/ dl_Download
    \/ dl_Listing
    \/ dlu_Config
    \/ dlu_Download
    \/ dlu_Listing
    \/ dl_PlaceModel
    \/ dl_Rerun
    \/ bidmc_Subject
    \/ bidmc_Return
    \/ cos_CheckOnnx
    \/ cos_Prepare
    \/ cos_Primary
    \/ cos_Alternative
    \/ cos_Exit
    \/ cyi_CheckOnnx
    \/ cyi_Load
    \/ cyi_Output
    \/ cyi_Save
    \/ cyi_Convert
    \/ cyi_Write
    \/ cyi_Verify
    \/ cyi_Copy
    \/ cyi_Cleanup
    \/ pf_Prepare
    \/ pf_Feature
    \/ pf_Return

Spec == Init /\ [][Next]_vars

(***************************************************************************)
(* Properties                                                              *)
(***************************************************************************)

Loaders == {"load_qr_respiratory_data", "load_respiratory_data"}

\* The four criteria of the threshold-voting rule that hold of a sample.
criteria_met(s) ==
    {c \in 1..4 :
        \/ c = 1 /\ (s.breathing_rate < BRADYPNEA \/ s.breathing_rate > TACHYPNEA)
        \/ c = 2 /\ s.irregularity > IRREGULARITY
        \/ c = 3 /\ s.amplitude_var > AMPLITUDE_VARIATION
        \/ c = 4 /\ s.velocity > VELOCITY}

\* C1: every generated sample is labelled 1 exactly when at least two of the
\* four criteria (rate outside 10..24, irregularity > 0.4, amplitude
\* variation > 40, velocity > 8) hold, a value on a threshold not counting.
C1_LabelIffTwoCriteria ==
    script = "create_sample_model" =>
        /\ Len(y) = Len(X)
        /\ \A k \in 1..Len(y) :
              (y[k] = 1) <=> (Cardinality(criteria_met(X[k])) >= 2)
        /\ \A k \in 1..Len(y) : y[k] \in {0, 1}

\* C1 witness: a sample labelled normal although three of its values sit on
\* their thresholds, and one labelled abnormal with its rate on a threshold.
C1_Witness ==
    /\ script = "create_sample_model"
    /\ pc = "done"
    /\ \E k \in 1..Len(y) :
          /\ y[k] = 0
          /\ X[k].breathing_rate = TACHYPNEA
          /\ X[k].irregularity = IRREGULARITY
          /\ X[k].velocity = VELOCITY
          /\ X[k].amplitude_var > AMPLITUDE_VARIATION
    /\ \E k \in 1..Len(y) :
          /\ y[k] = 1
          /\ X[k].breathing_rate = BRADYPNEA

\* C2: whenever export_model_weights returns True, the written bundle's
\* weights hold one coefficient for every name of its feature_names, plus
\* the bias, and the bundle has its thresholds, whatever the number of
\* coefficients of the loaded model.
C2_WeightsCoverFeatureNames ==
    (script = "export_model_weights" /\ ret = "True") =>
        /\ out_file = "complete"
        /\ DOMAIN output.weights =
              {output.feature_names[j] : j \in 1..Len(output.feature_names)}
                 \cup {"bias"}
        /\ output.thresholds \in {DefaultThresholds, CustomThresholds}

\* C3: once TensorFlow is there, convert_and_test_model.main never raises and
\* ends with its 'Process completed successfully!' message, whichever of
\* run_classification, convert_model, test_model, copy_instructions fails.
C3_MainAlwaysCompletes ==
    (script = "convert_and_test_model" /\ pc = "done" /\ Len(steps) >= 1) =>
        /\ ret = "None"
        /\ Logged("Process completed successfully!")

\* C4: both loaders process every matched file exactly once and in order, an
\* exception in one file is logged and the later files are still processed,
\* and the only exception leaving the function is the final ValueError.
C4_EveryFileProcessedOnce ==
    script \in Loaders =>
        /\ Len(processed) <= Len(files)
        /\ \A k \in 1..Len(processed) : processed[k] = k
        /\ Len(log) = Len(processed)
        /\ \A k \in 1..Len(log) :
              /\ log[k].arg = k
              /\ log[k].msg \in {"Error loading", loaded_message(script)}
        /\ ret \in {"running", "DataFrame", "ValueError"}
        /\ pc = "done" =>
              /\ Len(processed) = Len(files)
              /\ ret = "ValueError" <=> all_data = <<>>

\* C4 witness: a run that logged an error for its first file and went on to
\* load its second one.
C4_Witness ==
    /\ script = "load_qr_respiratory_data"
    /\ pc = "done"
    /\ ret = "DataFrame"
    /\ Len(log) = 2
    /\ log[1].msg = "Error loading"
    /\ log[2].msg = "Processed"

\* C5: download_coco_model.main attempts every entry of models, in order,
\* also after a failed download; a failure is logged and main reaches its
\* file listing.
C5_EveryModelAttempted ==
    script = "download_coco_model" =>
        /\ Len(attempts) <= Len(models)
        /\ \A k \in 1..Len(attempts) :
              /\ attempts[k] = k
              /\ \E j \in 1..Len(log) :
                    /\ log[j].arg = k
                    /\ log[j].msg \in {"Downloaded", "Failed to download"}
        /\ ret # "raised"
        /\ pc = "done" =>
              /\ Len(attempts) = Len(models)
              /\ Logged("Files in assets")

\* C5 witness: the first download failed, the second was made and succeeded,
\* and the listing was printed.
C5_Witness ==
    /\ script = "download_coco_model"
    /\ pc = "done"
    /\ \E a, b \in 1..Len(log) :
          /\ a < b
          /\ log[a] = Msg("Failed to download", 1)
          /\ log[b] = Msg("Downloaded", 2)
    /\ Logged("Files in assets")

\* C6: load_bidmc_data attempts every subject exactly once and in order, also
\* after a subject whose processing raised; the result has at most one record
\* per subject and none for a subject whose error was logged; no exception
\* leaves the function.
C6_EverySubjectAttempted ==
    script = "load_bidmc_data" =>
        /\ Len(attempted) = subject_id - 1
        /\ \A k \in 1..Len(attempted) : attempted[k] = k
        /\ \A a, b \in 1..Len(all_subjects) :
              a # b => all_subjects[a].subject_id # all_subjects[b].subject_id
        /\ \A a \in 1..Len(all_subjects) :
              /\ all_subjects[a].subject_id \in 1..Len(attempted)
              /\ \A j \in 1..Len(log) :
                    ~(/\ log[j].msg = "Error processing subject"
                      /\ log[j].arg = all_subjects[a].subject_id)
        /\ ret \in {"running", "DataFrame"}
        /\ pc = "done" => Len(attempted) = MaxSubjects

\* C6 witness: the first subject raised, the next one gave a record.
C6_Witness ==
    /\ script = "load_bidmc_data"
    /\ pc = "done"
    /\ Len(log) >= 1
    /\ log[1] = Msg("Error processing subject", 1)
    /\ \E a \in 1..Len(all_subjects) : all_subjects[a].subject_id = 2

\* C7: run_model_export starts the export script only after the create
\* script ended with status 0; main returns True exactly when both ended with
\* status 0; and the process exits 0 exactly when main returned True.
C7_ExportOnlyAfterCreate ==
    script = "run_model_export" =>
        /\ \A k \in 1..Len(ran) :
              ran[k].name = "export_model_weights.py" =>
                 /\ k = 2
                 /\ ran[1].name = "create_sample_model.py"
                 /\ ran[1].rc = 0
        /\ pc \in {"rme_exit", "done"} =>
              (ret = "True" <=>
                  /\ Len(ran) = 2
                  /\ ran[1].rc = 0
                  /\ ran[2].rc = 0)
        /\ pc = "done" => (exit_code = 0 <=> ret = "True")
        /\ pc = "done" => exit_code \in {0, 1}

\* C7 witness: model creation failed, nothing else was run, exit status 1.
C7_Witness ==
    /\ script = "run_model_export"
    /\ pc = "done"
    /\ Len(ran) = 1
    /\ ran[1].rc # 0
    /\ exit_code = 1

\* C8: export_model_weights never raises; when the model cannot be loaded or
\* is no LogisticRegression it returns False with the file at output_path
\* untouched; it returns True only with the bundle completely written.
C8_ExportNeverRaises ==
    script = "export_model_weights" =>
        /\ ret \in {"running", "True", "False"}
        /\ pc = "done" => ret \in {"True", "False"}
        /\ model.kind \in {"missing", "other"} =>
              /\ out_file = out_file0
              /\ pc = "done" => ret = "False"
        /\ ret = "True" => out_file = "complete"

\* C8 witness: an object of another class was loaded over an existing bundle.
C8_Witness ==
    /\ script = "export_model_weights"
    /\ pc = "done"
    /\ model.kind = "other"
    /\ out_file0 = "old"
    /\ ret = "False"

\* C9: convert_onnx_simple.convert_onnx_to_tflite always ends with a boolean
\* and no exception leaves it; without the ONNX model it returns False and
\* creates nothing; it returns True only with the TFLite model written and
\* copied to the assets; the script exits 1 exactly when it returned False.
C9_ConvertEndsWithBoolean ==
    script = "convert_onnx_simple" =>
        /\ ret \in {"running", "True", "False"}
        /\ pc # "done" =>
              ENABLED (cos_CheckOnnx \/ cos_Prepare \/ cos_Primary
                          \/ cos_Alternative \/ cos_Exit)
        /\ pc \in {"cos_exit", "done"} => ret \in {"True", "False"}
        /\ ~cos_fs0.onnx =>
              /\ cos_fs = cos_fs0
              /\ pc \in {"cos_exit", "done"} => ret = "False"
        /\ ret = "True" =>
              /\ cos_fs.tflite \in {"primary", "alternative"}
              /\ cos_fs.assets_model = cos_fs.tflite
        /\ pc = "done" => (exit_code = 1 <=> ret = "False")
        /\ pc = "done" => exit_code \in {0, 1}

\* C9 witness: the primary conversion failed and the alternative one gave
\* True, with the model in the assets and exit status 0.
C9_Witness ==
    /\ script = "convert_onnx_simple"
    /\ pc = "done"
    /\ conversions = <<"primary", "alternative">>
    /\ ret = "True"
    /\ cos_fs.assets_model = "alternative"
    /\ exit_code = 0

\* C10: a subject record of load_bidmc_data is labelled abnormal exactly when
\* breathing_rate < 10, breathing_rate > 24, amplitude_variability > 0.4 or
\* duration_variability > 0.4; age, gender and location play no part.
C10_AbnormalIffAnyCriterion ==
    script = "load_bidmc_data" =>
        \A k \in 1..Len(all_subjects) :
           LET r == all_subjects[k] IN
           /\ r.abnormal \in {0, 1}
           /\ r.abnormal = 1 <=>
                 \/ r.breathing_rate < 1000
                 \/ r.breathing_rate > 2400
                 \/ r.amplitude_variability > 40
                 \/ r.duration_variability > 40

\* C10 witness: a normal record with every value on its threshold, next to an
\* abnormal one that only its amplitude variability makes abnormal.
C10_Witness ==
    /\ script = "load_bidmc_data"
    /\ pc = "done"
    /\ \E k \in 1..Len(all_subjects) :
          /\ all_subjects[k].abnormal = 0
          /\ all_subjects[k].breathing_rate = 2400
          /\ all_subjects[k].amplitude_variability = 40
          /\ all_subjects[k].duration_variability = 40
    /\ \E k \in 1..Len(all_subjects) :
          /\ all_subjects[k].abnormal = 1
          /\ all_subjects[k].breathing_rate = 1000
          /\ all_subjects[k].amplitude_variability = 41

\* C12: in both loaders the rows of a file are read from that file's own
\* 'timestamp' line (skiprows is the index of its first such line), and a
\* file without such a line is rejected: an error is logged for it and it
\* gives no data, whatever was processed before it.
C12_OwnTimestampLine ==
    script \in Loaders =>
        /\ \A r \in 1..Len(all_data) :
              /\ first_timestamp(files[all_data[r].file].lines) # Unbound
              /\ all_data[r].skiprows = first_timestamp(files[all_data[r].file].lines)
        /\ \A k \in 1..Len(processed) :
              (files[k].readable /\ first_timestamp(files[k].lines) = Unbound) =>
                 /\ log[k].msg = "Error loading"
                 /\ \A r \in 1..Len(all_data) : all_data[r].file # k

\* C13: in load_qr_respiratory_data a file for which 'Error loading' is
\* logged has no row in the result: the rows are those of the files whose
\* processing ended without an exception, one each.
C13_ErrorMeansNoRow ==
    script = "load_qr_respiratory_data" =>
        \A k \in 1..Len(processed) :
           Cardinality({r \in 1..Len(all_data) : all_data[r].file = k})
              = (IF log[k].msg = "Error loading" THEN 0 ELSE 1)

\* A file of the app with its data section: readable, its own 'timestamp'
\* column line with the app's columns, and no header field that fails to parse.
has_data_section(f) ==
    /\ f.readable
    /\ first_timestamp(f.lines) # Unbound
    /\ f.lines[first_timestamp(f.lines) + 1] = "TS"
    /\ ~has_field(f.lines, "AgeBad")

\* C14: in load_qr_respiratory_data a file with a data section that lacks
\* header fields (the 'Average Amplitude:' or the 'Breathing Rate:' line
\* among them) is still summarised, the missing fields taking their
\* defaults, and no error is logged for it.
C14_MissingFieldsGetDefaults ==
    script = "load_qr_respiratory_data" =>
        \A k \in 1..Len(processed) :
           has_data_section(files[k]) =>
              /\ log[k].msg = "Processed"
              /\ \E r \in 1..Len(all_data) : all_data[r].file = k

\* C15: in convert_onnx_simple the alternative conversion is tried exactly
\* when the first converter.convert() call raised; a failure of a later step
\* of the first path (writing, testing or copying the model, the cleanup)
\* starts no second conversion.
C15_AlternativeIffConvertRaised ==
    (script = "convert_onnx_simple" /\ Len(conversions) >= 1) =>
        /\ Logged("TFLite conversion failed") <=> cos_raised = "convert"
        /\ cos_raised \notin {"none", "convert"} => Len(conversions) = 1

\* C16: whenever convert_onnx_simple returns True the SavedModel directory
\* tf_model_fixed has been removed, on the first and on the alternative path.
C16_TrueMeansSavedModelRemoved ==
    (script = "convert_onnx_simple" /\ ret = "True") => ~cos_fs.tf_model

\* C11: in convert_yolov5_improved, once the loop over graph.output is over,
\* no output named 'output' is left in the list and every output left has
\* dim[0] = 1, whatever the list was and wherever 'output' stood in it.
C11_OutputsFixedAfterLoop ==
    (script = "convert_yolov5_improved" /\ pc = "cyi_save") =>
        \A k \in 1..Len(graph_output) :
           /\ graph_output[k].name # "output"
           /\ graph_output[k].dim0 = 1

\* C17: in convert_yolov5_improved the model in the assets directory is
\* written only after converter.convert() and the verification inference
\* both succeeded; when the ONNX model is missing, the conversion raises or
\* the verification raises, the function returns and the assets file is as
\* it was.
C17_AssetsOnlyAfterVerification ==
    script = "convert_yolov5_improved" =>
        /\ cyi_fs.assets_model # cyi_fs0.assets_model =>
              /\ Logged("TFLite conversion completed successfully")
              /\ Logged("Successfully ran inference on test input")
        /\ (\/ Logged("ONNX model not found")
            \/ Logged("Error during TFLite conversion")
            \/ Logged("Error during model verification")) =>
              /\ pc = "done"
              /\ ret = "None"
              /\ cyi_fs.assets_model = cyi_fs0.assets_model

\* The verification of a freshly written model raised, and the model that
\* was in the assets directory is still there.
C17_Witness ==
    /\ script = "convert_yolov5_improved"
    /\ pc = "done"
    /\ Logged("Error during model verification")
    /\ cyi_fs.tflite = "new"
    /\ cyi_fs0.assets_model = "old"
    /\ cyi_fs.assets_model = "old"

\* C18: in both download scripts the backup step renames
\* qr_yolov5_tiny.tflite to qr_yolov5_tiny.tflite.backup exactly when the
\* model exists and no backup exists; over the runs of the scripts, with new
\* QR models placed in between, no step changes a backup that exists.
C18_BackupNeverOverwritten ==
    [][(script \in DownloadScripts) =>
        (/\ pc = "start" =>
               IF /\ assets["qr_yolov5_tiny.tflite"] # "absent"
                  /\ assets["qr_yolov5_tiny.tflite.backup"] = "absent"
                 THEN /\ assets'["qr_yolov5_tiny.tflite.backup"]
                            = assets["qr_yolov5_tiny.tflite"]
                      /\ assets'["qr_yolov5_tiny.tflite"] = "absent"
                 ELSE assets' = assets
         /\ assets["qr_yolov5_tiny.tflite.backup"] # "absent" =>
               (assets'["qr_yolov5_tiny.tflite.backup"]
                  = assets["qr_yolov5_tiny.tflite.backup"]))]_vars

\* The first run made the backup of the model it found; a new model was
\* placed, and the second run left both the backup and the new model alone.
C18_Witness ==
    /\ script \in DownloadScripts
    /\ runs = 2
    /\ pc = "done"
    /\ assets["qr_yolov5_tiny.tflite.backup"] = "qr_v1"
    /\ assets["qr_yolov5_tiny.tflite"] = "qr_v2"

\* C19: in download_coco_model a download that fails at any point (HTTP
\* error, or an exception while the chunks are streamed) neither creates
\* nor changes the file at the target path.
C19_FailedDownloadLeavesTarget ==
    [][(/\ script = "download_coco_model"
        /\ Len(log') = Len(log) + 1
        /\ log'[Len(log')].msg = "Failed to download") =>
           assets' = assets]_vars

\* C20: prepare_features_for_model returns a frame whose columns are the
\* names of feature_names, in that order, one column per name and none
\* dropped, whatever list of names is stored with the model.  (A call that
\* raises returns no frame.)
C20_ColumnsAreFeatureNames ==
    (script = "prepare_features_for_model" /\ pc = "done"
        /\ ret = "DataFrame") =>
        columns = stored_names

====
